---------------------------- MODULE Spec2Model ----------------------------
(***************************************************************************)
(* A model of the cf-requests response/validation pipeline                 *)
(* (src/lib/handlers.js) and of the contexts it runs on: a Hono request    *)
(* context, the mock context of the handler tests and the synthetic        *)
(* context that schemaTest builds (src/aegis/index.js).                    *)
(*                                                                         *)
(* One request context is modelled.  Every action is one complete call of  *)
(* an exported operation on that context; the call's effects on the        *)
(* context (status set, JSON finalized, data stored, verifier registered)  *)
(* persist, and the variable `call` holds what the last call did and how   *)
(* it ended, and which verifier the context held before it.  A request    *)
(* makes at most MaxCalls calls.                                           *)
(*                                                                         *)
(* A second specification, IsoSpec, runs two requests, each on a context   *)
(* of its own, with their calls interleaved; the variable `reqs` holds the *)
(* two contexts and, beside each, the same calls made on a context that    *)
(* serves that request alone.                                              *)
(***************************************************************************)
EXTENDS Integers, Sequences, FiniteSets, TLC

VARIABLES ctx, store, httpStatus, calls, call, reqs

vars == <<ctx, store, httpStatus, calls, call, reqs>>

-----------------------------------------------------------------------------
(* JavaScript values.  A scalar is [t, s]; a value is [t, s, f, items]     *)
(* where f holds the fields of an object (scalars) and items the elements  *)
(* of an array or the value a promise resolves to.                         *)

MaxCalls == 2

ScUndef == [t |-> "undef", s |-> ""]
ScNull == [t |-> "null", s |-> ""]
ScStr(x) == [t |-> "str", s |-> x]
ScNum(x) == [t |-> "num", s |-> x]

\* String(x), as a template literal converts a scalar.
ToStr(sc) ==
  CASE sc.t = "undef" -> "undefined"
    [] sc.t = "null" -> "null"
    [] OTHER -> sc.s

NoFields == [k \in {} |-> ScUndef]

Undef == [t |-> "undef", s |-> "", f |-> NoFields, items |-> <<>>]
Null == [t |-> "null", s |-> "", f |-> NoFields, items |-> <<>>]
True == [t |-> "bool", s |-> "true", f |-> NoFields, items |-> <<>>]
False == [t |-> "bool", s |-> "false", f |-> NoFields, items |-> <<>>]
Str(x) == [t |-> "str", s |-> x, f |-> NoFields, items |-> <<>>]
Num(x) == [t |-> "num", s |-> x, f |-> NoFields, items |-> <<>>]
Obj(fields) == [t |-> "obj", s |-> "", f |-> fields, items |-> <<>>]
Arr(xs) == [t |-> "arr", s |-> "", f |-> NoFields, items |-> xs]
Promise(x) == [t |-> "promise", s |-> "", f |-> NoFields, items |-> <<x>>]

\* `await x`: a promise yields what it resolves to, anything else itself.
Await(x) == IF x.t = "promise" THEN x.items[1] ELSE x

\* status ??= d, result ??= d: only undefined and null take the default.
IsNullish(x) == x.t \in {"undef", "null"}
Default(x, d) == IF IsNullish(x) THEN d ELSE x

\* HTTP status arguments: a number, or undefined / null when not given.
StatusUndef == [t |-> "undef", n |-> 0]
StatusNull == [t |-> "null", n |-> 0]
StatusNum(n) == [t |-> "num", n |-> n]

DefaultSuccessStatus == 200
DefaultFailStatus == 400
ValidationStatus == 422
ServerErrorStatus == 500

-----------------------------------------------------------------------------
(* Envelopes, return values, thrown values.                                *)

Envelope(ok, st, msg, d) == [success |-> ok, status |-> st, message |-> msg, data |-> d]
NoEnvelope == Envelope(FALSE, StatusUndef, ScUndef, Undef)

\* What validate and mask of a binding are applied to: the envelope built by
\* success(), or a plain value.
EnvSubject(e) == [k |-> "envelope", env |-> e, val |-> Undef]
ValSubject(v) == [k |-> "value", env |-> NoEnvelope, val |-> v]

\* A return value: a Response carrying an envelope, the envelope itself, a
\* plain value, or undefined.
RetUndef == [k |-> "undef", env |-> NoEnvelope, http |-> StatusUndef, val |-> Undef]
RetResponse(e, h) == [k |-> "response", env |-> e, http |-> h, val |-> Undef]
RetPayload(e, h) == [k |-> "payload", env |-> e, http |-> h, val |-> Undef]
RetValue(v) == [k |-> "value", env |-> NoEnvelope, http |-> StatusUndef, val |-> v]

\* One line of err.stack: leading blanks, an optional "at " prefix, the rest.
StackLine(pad, at, text) == [pad |-> pad, at |-> at, text |-> text]
SummaryLine(text) == StackLine("", FALSE, text)
\* What follows "at " in a frame line.
FrameTexts == {"handler (route.js:3:11)", "async body (handlers.js:188:14)", "(route.js:1:1)"}
SomeStack(msg) ==
  << SummaryLine("Error: " \o msg),
     StackLine("    ", TRUE, "handler (route.js:3:11)"),
     StackLine("    ", TRUE, "async body (handlers.js:188:14)") >>
\* The stack of an error thrown in a function whose name is `at`.
StackThroughAt(msg) ==
  << SummaryLine("Error: " \o msg),
     StackLine("    ", TRUE, "at " \o "(route.js:1:1)"),
     StackLine("    ", TRUE, "async body (handlers.js:188:14)") >>
\* The stack of an error created while Error.stackTraceLimit is 0.
StackWithoutFrames(msg) == << SummaryLine("Error: " \o msg) >>

Thrown(k, msg, st, res, stack) ==
  [k |-> k, message |-> msg, status |-> st, result |-> res, stack |-> stack]
NoError == Thrown("none", ScUndef, StatusUndef, Undef, <<>>)

\* new Error(message)
PlainError(msg) == Thrown("Error", ScStr(msg), StatusUndef, Undef, SomeStack(msg))
\* new HttpError(message, status = 500): the default applies to undefined only.
HttpError(msg, st) ==
  Thrown("HttpError", ScStr(msg),
         IF st.t = "undef" THEN StatusNum(ServerErrorStatus) ELSE st,
         Undef, SomeStack(msg))
\* new SchemaError(message, status = 500, result = undefined)
SchemaError(msg, st, res) ==
  [HttpError(msg, st) EXCEPT !.k = "SchemaError", !.result = res]
\* The TypeError the runtime raises for a property read of undefined or null,
\* for the `in` operator on a primitive, or for a call of a non-function.
TypeError(msg) == Thrown("TypeError", ScStr(msg), StatusUndef, Undef, SomeStack(msg))
\* `throw { message, status }`: an object that is no Error and has no stack.
ThrownObject(msg, st) == Thrown("object", ScStr(msg), st, Undef, <<>>)
\* `throw null`
ThrownNull == Thrown("null", ScUndef, StatusUndef, Undef, <<>>)

IsSchemaError(err) == err.k = "SchemaError"
IsHttpError(err) == err.k \in {"HttpError", "SchemaError"}

Returned(r) == [k |-> "return", ret |-> r, err |-> NoError]
Threw(e) == [k |-> "throw", ret |-> RetUndef, err |-> e]

-----------------------------------------------------------------------------
(* The request context.  ctx = [kind, env] never changes during a request: *)
(*   "hono"       a Hono context: json() returns a Response, get/set keep  *)
(*                request-scoped values, env is whatever the runtime       *)
(*                passed to fetch (possibly nothing);                      *)
(*   "mock"       mockCtx of the handler tests: json() returns the payload *)
(*                with the current status attached;                        *)
(*   "schemaTest" the synthetic context of schemaTest: status and json     *)
(*                capture a Response and return nothing, validated data is *)
(*                captured, there is no env and no get/set.                *)
(* Mem is the mutable part of the context followed through one call,       *)
(* together with the record of what the call did.                          *)

CtxKinds == {"hono", "mock", "schemaTest"}
\* env.CF_REQUESTS_STACKTRACE: unset, a string, or the boolean true.
EnvFlags == {"unset", "true", "yes", "false", "TRUE", "bool:true"}
NoEnv == "none"
Contexts ==
  {[kind |-> "hono", env |-> e] : e \in {"unset", "true", NoEnv}}
    \cup {[kind |-> "mock", env |-> e] : e \in EnvFlags}
    \cup {[kind |-> "schemaTest", env |-> NoEnv]}

HasStore(c) == c.kind \in {"hono", "mock"}
HasRequest(c) == c.kind \in {"hono", "schemaTest"}

DataTypes == {"json", "form"}

Mem(st, http) ==
  [store |-> st, http |-> http,
   trace |-> <<>>, statuses |-> <<>>, finals |-> <<>>, stored |-> <<>>,
   vcalls |-> <<>>, mcalls |-> <<>>]

\* ctx.status(code)
CtxStatus(m, code) ==
  [m EXCEPT !.http = code, !.trace = Append(@, "status"),
            !.statuses = Append(@, code)]

\* ctx.json(payload): the effect on the context ...
CtxJson(m, payload) ==
  [m EXCEPT !.trace = Append(@, "json"),
            !.finals = Append(@, [env |-> payload, http |-> m.http])]

\* ... and what the call returns.
JsonReturn(c, m, payload) ==
  CASE c.kind = "hono" -> RetResponse(payload, m.http)
    [] c.kind = "mock" -> RetPayload(payload, m.http)
    [] c.kind = "schemaTest" -> RetUndef

\* ctx.set(key, value) and ctx.get(key) for the verifier's key.
CtxSet(m, b) == [m EXCEPT !.store = b, !.trace = Append(@, "set")]
CtxGet(m) == m.store

\* ctx.req.addValidatedData(target, data)
AddValidatedData(m, target, data) ==
  [m EXCEPT !.stored = Append(@, [target |-> target, data |-> data]),
            !.trace = Append(@, "store")]

\* next()
CallNext(m) == [m EXCEPT !.trace = Append(@, "next")]

-----------------------------------------------------------------------------
(* Schema bindings {validate, mask?}.  The schema library is an external   *)
(* capability: a binding accepts a subject or not according to the shape   *)
(* its schema declares, answers true when it accepts and the caller-chosen *)
(* rejection value otherwise, and its mask keeps the declared fields.      *)

Binding(id, v, mk, async) == [id |-> id, v |-> v, m |-> mk, async |-> async]
NoBinding == Binding("none", "never", "none", FALSE)

\* UserSchema of the handler tests: the whole envelope, data {id, username, ?email}.
UserSchema == Binding("UserSchema", "envelope", "schema", FALSE)
EnvelopeNoMask == Binding("EnvelopeNoMask", "envelope", "none", FALSE)
\* MaskSchema / NoMaskSchema of the validator tests: the fields at the root.
MaskSchema == Binding("MaskSchema", "root", "schema", FALSE)
NoMaskSchema == Binding("NoMaskSchema", "root", "none", FALSE)
\* A schema whose fields are all optional: its validate accepts any object
\* and its mask strips every field the schema does not declare.
OptionalSchema == Binding("OptionalSchema", "any", "schema", FALSE)
\* A binding whose validate is an async function that accepts anything.
AsyncAny == Binding("AsyncAny", "any", "none", TRUE)

\* The bindings given to validate() for request data and to verify().
RequestBindings == {MaskSchema, NoMaskSchema, AsyncAny}
ResponseBindings == {UserSchema, EnvelopeNoMask, MaskSchema, OptionalSchema, AsyncAny}

SchemaFields == {"id", "username", "email"}

FieldsOk(v) ==
  /\ v.t = "obj"
  /\ {"id", "username"} \subseteq DOMAIN v.f
  /\ v.f["id"].t = "num"
  /\ v.f["username"].t = "str"

Accepts(b, subj) ==
  CASE b.v = "envelope" -> subj.k = "envelope" /\ FieldsOk(subj.env.data)
    [] b.v = "root" -> subj.k = "value" /\ FieldsOk(subj.val)
    [] b.v = "any" -> TRUE
    [] OTHER -> FALSE

\* binding.validate(subject): true, or the rejection value; a promise of
\* either when validate is async.
ValidateFn(b, subj, rej) ==
  LET answer == IF Accepts(b, subj) THEN True ELSE rej
  IN  IF b.async THEN Promise(answer) ELSE answer

\* (variant: the typeof test never recognises a mask)
HasMaskNever(b) == FALSE
\* typeof mask === 'function'
HasMask(b) == b.m # "none"

Restrict(v, keys) ==
  IF v.t = "obj" THEN Obj([k \in (DOMAIN v.f) \cap keys |-> v.f[k]]) ELSE v

\* binding.mask(subject): fields the schema does not declare are stripped.
MaskFn(b, subj) ==
  IF subj.k = "envelope"
  THEN IF b.v = "envelope"
       THEN EnvSubject([subj.env EXCEPT !.data = Restrict(@, SchemaFields)])
       ELSE EnvSubject(NoEnvelope)
  ELSE IF b.v = "envelope"
       THEN ValSubject(Restrict(subj.val, {}))
       ELSE ValSubject(Restrict(subj.val, SchemaFields))

\* The calls of binding.validate / binding.mask, as the call's record keeps them.
CallValidate(m, b, subj, rej) ==
  [m EXCEPT !.trace = Append(@, "validate"),
            !.vcalls = Append(@, [b |-> b.id, subj |-> subj, ret |-> ValidateFn(b, subj, rej)])]
CallMask(m, b, subj) ==
  [m EXCEPT !.trace = Append(@, "mask"),
            !.mcalls = Append(@, [b |-> b.id, subj |-> subj, ret |-> MaskFn(b, subj)])]

-----------------------------------------------------------------------------
(* src/lib/handlers.js.  Every operation takes the context c and the       *)
(* memory m and yields [m, out]: the memory after the call and how the     *)
(* call ended (Returned or Threw).                                          *)

Note(m, ev) == [m EXCEPT !.trace = Append(@, ev)]

\* `"message" in e` throws a TypeError unless e is an object.
IsObject(e) == e.t \in {"obj", "arr", "promise"}

ConvertEntry(e) ==
  IF "message" \in DOMAIN e.f /\ "value" \in DOMAIN e.f
  THEN Str(ToStr(e.f["message"]) \o " (got '" \o ToStr(e.f["value"]) \o "')")
  ELSE e

\* getErrors(errors): [ok, v]; ok is FALSE when the conversion throws.
getErrors(errors) ==
  IF errors.t = "arr"
  THEN IF \E i \in DOMAIN errors.items : ~IsObject(errors.items[i])
       THEN [ok |-> FALSE, v |-> Undef]
       ELSE [ok |-> TRUE,
             v |-> Arr([i \in DOMAIN errors.items |-> ConvertEntry(errors.items[i])])]
  ELSE [ok |-> TRUE, v |-> errors]

InOperatorError == TypeError("Cannot use 'in' operator to search for 'message'")

\* (variant: fail() gives an absent result the default success() gives it)
failWithListDefault(c, m, message, st, result) ==
  LET status2 == Default(st, StatusNum(DefaultFailStatus))
      payload == Envelope(FALSE, status2, message, Default(result, Arr(<<>>)))
      m1 == CtxStatus(Note(m, "fail"), status2)
  IN  [m |-> CtxJson(m1, payload), out |-> Returned(JsonReturn(c, m1, payload))]

\* (variant: fail() hands its envelope to the registered verifier, as success() does)
failConsultsVerifier(c, m, message, st, result) ==
  LET status2 == Default(st, StatusNum(DefaultFailStatus))
      payload == Envelope(FALSE, status2, message, result)
      validator == CtxGet(m)
      mv == IF validator # NoBinding
            THEN CallValidate(Note(m, "fail"), validator, EnvSubject(payload), False)
            ELSE Note(m, "fail")
      m1 == CtxStatus(mv, status2)
  IN  [m |-> CtxJson(m1, payload), out |-> Returned(JsonReturn(c, m1, payload))]

\* (variant: fail() finalizes the envelope before it sets the status)
failJsonFirst(c, m, message, st, result) ==
  LET status2 == Default(st, StatusNum(DefaultFailStatus))
      payload == Envelope(FALSE, status2, message, result)
      m1 == CtxJson(Note(m, "fail"), payload)
  IN  [m |-> CtxStatus(m1, status2), out |-> Returned(JsonReturn(c, m, payload))]

\* fail(ctx, message, status, result)
fail(c, m, message, st, result) ==
  LET status2 == Default(st, StatusNum(DefaultFailStatus))
      payload == Envelope(FALSE, status2, message, result)
      m1 == CtxStatus(Note(m, "fail"), status2)
  IN  [m |-> CtxJson(m1, payload), out |-> Returned(JsonReturn(c, m1, payload))]

ResponseSchemaMessage == "response data failed schema validation"

\* (variant: the status is set before the verifier is consulted)
successStatusFirst(c, m, message, result, st, rej) ==
  LET status2 == Default(st, StatusNum(DefaultSuccessStatus))
      result2 == Default(result, Arr(<<>>))
      built == Envelope(TRUE, status2, message, result2)
      validator == CtxGet(m)
      m0 == CtxStatus(Note(m, "success"), status2)
      Finish(mm, payload) ==
        [m |-> CtxJson(mm, payload), out |-> Returned(JsonReturn(c, mm, payload))]
  IN  IF validator # NoBinding
      THEN LET valid == ValidateFn(validator, EnvSubject(built), rej)
               mv == CallValidate(m0, validator, EnvSubject(built), rej)
           IN  IF valid # True
               THEN [m |-> mv,
                     out |-> Threw(SchemaError(ResponseSchemaMessage,
                                               StatusNum(ServerErrorStatus), valid))]
               ELSE IF HasMask(validator)
                    THEN Finish(CallMask(mv, validator, EnvSubject(built)),
                                MaskFn(validator, EnvSubject(built)).env)
                    ELSE Finish(mv, built)
      ELSE Finish(m0, built)

\* success(ctx, message, result, status); rej is what the verifier's validate
\* answers when it does not accept.
success(c, m, message, result, st, rej) ==
  LET status2 == Default(st, StatusNum(DefaultSuccessStatus))
      result2 == Default(result, Arr(<<>>))
      built == Envelope(TRUE, status2, message, result2)
      validator == CtxGet(m)
      m0 == Note(m, "success")
      Finish(mm, payload) ==
        LET m1 == CtxStatus(mm, status2)
        IN  [m |-> CtxJson(m1, payload), out |-> Returned(JsonReturn(c, m1, payload))]
  IN  IF validator # NoBinding
      THEN LET valid == ValidateFn(validator, EnvSubject(built), rej)
               mv == CallValidate(m0, validator, EnvSubject(built), rej)
           IN  IF valid # True
               THEN [m |-> mv,
                     out |-> Threw(SchemaError(ResponseSchemaMessage,
                                               StatusNum(ServerErrorStatus), valid))]
               ELSE IF HasMask(validator)
                    THEN Finish(CallMask(mv, validator, EnvSubject(built)),
                                MaskFn(validator, EnvSubject(built)).env)
                    ELSE Finish(mv, built)
      ELSE Finish(m0, built)

RequestSchemaMessage(dataType) == "request " \o dataType \o " data failed schema validation"

\* (variant: the validated value is returned without masking it)
validateCallbackUnmasked(c, m, dataType, b, value, rej) ==
  LET result == Await(ValidateFn(b, ValSubject(value), rej))
      mv == CallValidate(m, b, ValSubject(value), rej)
  IN  IF result = True
      THEN [m |-> mv, out |-> Returned(RetValue(value))]
      ELSE LET errs == getErrors(result)
           IN  IF errs.ok
               THEN fail(c, mv, ScStr(RequestSchemaMessage(dataType)),
                         StatusNum(ValidationStatus), errs.v)
               ELSE [m |-> mv, out |-> Threw(InOperatorError)]

\* The callback validate() hands to Hono's validator: async (value, ctx) => ...
validateCallback(c, m, dataType, b, value, rej) ==
  LET result == Await(ValidateFn(b, ValSubject(value), rej))
      mv == CallValidate(m, b, ValSubject(value), rej)
  IN  IF result = True
      THEN IF HasMask(b)
           THEN [m |-> CallMask(mv, b, ValSubject(value)),
                 out |-> Returned(RetValue(MaskFn(b, ValSubject(value)).val))]
           ELSE [m |-> mv, out |-> Returned(RetValue(value))]
      ELSE LET errs == getErrors(result)
           IN  IF errs.ok
               THEN fail(c, mv, ScStr(RequestSchemaMessage(dataType)),
                         StatusNum(ValidationStatus), errs.v)
               ELSE [m |-> mv, out |-> Threw(InOperatorError)]

\* What a callback's return value is when stored as validated data.
RetAsValue(ret) == IF ret.k = "value" THEN ret.val ELSE Undef

ReadOfNothingError == TypeError("Cannot read properties of undefined or null")

\* The targets validator() of hono/validator reads from the request; for any
\* other target the value it hands to the callback is the empty object.
honoValue(target, data) == IF target \in {"json", "form"} THEN data ELSE Obj(NoFields)

\* validator(target, callback) of hono/validator on memory m, where r is the
\* outcome of the callback: the middleware first reads c.req.header(...), so
\* on a context without req it throws before the callback runs; a Response
\* from the callback is returned as it is; anything else is stored as the
\* validated data of the target and the chain continues.
honoValidator(c, m, target, r) ==
  IF ~HasRequest(c)
  THEN [m |-> m, out |-> Threw(ReadOfNothingError)]
  ELSE IF r.out.k = "throw" \/ r.out.ret.k = "response"
       THEN r
       ELSE [m |-> CallNext(AddValidatedData(r.m, target, RetAsValue(r.out.ret))),
             out |-> Returned(RetUndef)]

\* validate(dataType, binding)(ctx, next), on a request that carries data
validate(c, m, dataType, b, data, rej) ==
  honoValidator(c, m, dataType,
                validateCallback(c, m, dataType, b, honoValue(dataType, data), rej))

\* (variant: a verify that keeps the verifier the context already holds)
verifyKeepsFirst(c, m, b) ==
  [m |-> CallNext(IF CtxGet(m) = NoBinding THEN CtxSet(m, b) ELSE m),
   out |-> Returned(RetUndef)]

\* verify(binding)(ctx, next)
verify(c, m, b) == [m |-> CallNext(CtxSet(m, b)), out |-> Returned(RetUndef)]

-----------------------------------------------------------------------------
(* src/aegis/index.js: schemaTest(dataType, schema, data) with the default *)
(* validator.  It synthesizes a request, builds a context around it, runs  *)
(* the middleware once and returns what the context captured.              *)

InitialResponseStatus == 200

\* The context schemaTest builds, and its captures before the middleware runs.
SyntheticCtx == [kind |-> "schemaTest", env |-> NoEnv]
FreshCaptures == Mem(NoBinding, StatusNum(InitialResponseStatus))

\* A Content-Type header: the media type and, for multipart, the boundary.
ContentType(type, bd) == [type |-> type, boundary |-> bd]
NoContentType == ContentType("undefined", "")

\* The boundaries the runtime may pick when it serializes a FormData body.
Boundaries == {"----formdata-1", "----formdata-2"}

\* FormData.append(k, v) for each entry of data: a value that is not a file
\* is stored as the string it converts to.
FormOf(data) ==
  IF data.t = "obj" THEN Obj([k \in DOMAIN data.f |-> ScStr(ToStr(data.f[k]))]) ELSE Obj(NoFields)

\* new Request('http://localhost/', options): a FormData body is serialized
\* as multipart with boundary bd and the Content-Type header names that
\* boundary; without a body there is no Content-Type.
NoRequest == [contentType |-> NoContentType, boundary |-> "", form |-> Obj(NoFields)]
Request(dataType, data, bd) ==
  IF dataType = "form"
  THEN [contentType |-> ContentType("multipart/form-data", bd), boundary |-> bd,
        form |-> FormOf(data)]
  ELSE NoRequest

\* name.toLowerCase(), on the header names in use.
HeaderNames == {"Content-Type", "content-type", "CONTENT-TYPE", "Accept"}
ToLowerCase(name) ==
  CASE name \in {"Content-Type", "content-type", "CONTENT-TYPE"} -> "content-type"
    [] name = "Accept" -> "accept"
    [] OTHER -> name

\* (variant: the header accessor answers with a content type of its own)
headerOwnBoundary(req, dataType, name) ==
  IF ToLowerCase(name) # "content-type"
  THEN NoContentType
  ELSE CASE dataType = "json" -> ContentType("application/json", "")
         [] dataType = "form" -> ContentType("multipart/form-data", "----formdata-0")
         [] OTHER -> NoContentType

\* ctx.req.header(name), for a name that is given
header(req, dataType, name) ==
  IF ToLowerCase(name) # "content-type"
  THEN NoContentType
  ELSE CASE dataType = "json" -> ContentType("application/json", "")
         [] dataType = "form" -> req.contentType
         [] OTHER -> NoContentType

\* What Hono's validator reads for the target on the synthetic context: for
\* json, ctx.req.json(); for form, the bytes of ctx.req.arrayBuffer() parsed
\* with the boundary of ctx.req.header('Content-Type') (the parse fails
\* when the bytes use another boundary; without a multipart content type
\* nothing is read).
SyntheticRead(req, dataType, data) ==
  LET ct == header(req, dataType, "Content-Type")
  IN  CASE dataType = "json" -> [ok |-> TRUE, v |-> data]
        [] dataType = "form" /\ ct.type # "multipart/form-data" ->
             [ok |-> TRUE, v |-> Obj(NoFields)]
        [] dataType = "form" -> [ok |-> ct.boundary = req.boundary, v |-> req.form]
        [] OTHER -> [ok |-> TRUE, v |-> Obj(NoFields)]

\* return errorResponse ?? validData
Captured(m) ==
  IF m.finals # <<>>
  THEN RetResponse(m.finals[Len(m.finals)].env, m.finals[Len(m.finals)].http)
  ELSE IF m.stored # <<>> THEN RetValue(m.stored[Len(m.stored)].data) ELSE RetValue(Null)

schemaTest(dataType, b, data, bd, rej) ==
  LET req == Request(dataType, data, bd)
      read == SyntheticRead(req, dataType, data)
      r == validate(SyntheticCtx, FreshCaptures, dataType, b, read.v, rej)
  IN  IF ~read.ok
      THEN [m |-> FreshCaptures, out |-> Threw(TypeError("Malformed FormData request."))]
      ELSE IF r.out.k = "throw" THEN r ELSE [m |-> r.m, out |-> Returned(Captured(r.m))]

-----------------------------------------------------------------------------
(* body(handler).  A handler is described by what it does with the context: *)
(* it returns success(...), returns fail(...), returns a plain value        *)
(* without touching the context, or throws.                                 *)

Handler(k, message, result, st, err) ==
  [k |-> k, message |-> message, result |-> result, status |-> st, err |-> err]
NoHandler == Handler("none", ScUndef, Undef, StatusUndef, NoError)

RunHandler(c, m, h, rej) ==
  LET m0 == Note(m, "handler")
  IN  CASE h.k = "success" -> success(c, m0, h.message, h.result, h.status, rej)
        [] h.k = "fail" -> fail(c, m0, h.message, h.status, h.result)
        [] h.k = "throw" -> [m |-> m0, out |-> Threw(h.err)]
        [] OTHER -> [m |-> m0, out |-> Returned(RetValue(h.result))]

\* line.trim(), then the "at " prefix removed, as a string.
TrimLine(l) == [l EXCEPT !.pad = ""]
\* (variant: the "at " prefix is kept)
StripAtNever(l) == l
StripAt(l) == IF l.at THEN [l EXCEPT !.at = FALSE] ELSE l
Render(l) == l.pad \o (IF l.at THEN "at " ELSE "") \o l.text

\* err.stack.split('\n').slice(1).map(...)
TraceOf(stack) ==
  Arr([i \in 1..(Len(stack) - 1) |-> Str(Render(StripAt(TrimLine(stack[i + 1]))))])

HasStack(err) == err.stack # <<>>
TraceFlags == {"true", "yes"}
\* (variant: the flag is compared without regard to case or type)
GenerateTraceLoosely(c) == c.env \in TraceFlags \cup {"TRUE", "bool:true"}
\* ['true', 'yes'].includes(ctx.env.CF_REQUESTS_STACKTRACE)
GenerateTrace(c) == c.env \in TraceFlags

\* The last two statements of the catch block: the status and the fail() call.
Report(c, m, err, errorData) ==
  IF err.k = "null"
  THEN [m |-> m, out |-> Threw(ReadOfNothingError)]
  ELSE fail(c, m, err.message,
            IF IsHttpError(err) THEN err.status ELSE StatusNum(ServerErrorStatus),
            errorData)

\* The catch block of body(), entered with the outcome r of the handler.
Caught(c, r) ==
  LET err == r.out.err
  IN  IF IsSchemaError(err)
      THEN LET errs == getErrors(err.result)
           IN  IF errs.ok THEN Report(c, r.m, err, errs.v)
               ELSE [m |-> r.m, out |-> Threw(InOperatorError)]
      ELSE IF c.env = NoEnv
      THEN [m |-> r.m, out |-> Threw(ReadOfNothingError)]
      ELSE LET generateTrace == GenerateTrace(c)
           IN  IF generateTrace /\ err.k = "null"
               THEN [m |-> r.m, out |-> Threw(ReadOfNothingError)]
               ELSE Report(c, r.m, err,
                           IF generateTrace /\ HasStack(err)
                           THEN TraceOf(err.stack) ELSE Undef)

\* (variant: the wrapper sets the status itself when the handler returns)
bodySetsStatus(c, m, h, rej) ==
  LET r == RunHandler(c, m, h, rej)
  IN  IF r.out.k = "return"
      THEN [m |-> CtxStatus(r.m, StatusNum(DefaultSuccessStatus)), out |-> r.out]
      ELSE Caught(c, r)

\* The function body(handler) returns, applied to ctx.
body(c, m, h, rej) ==
  LET r == RunHandler(c, m, h, rej)
  IN  IF r.out.k = "return" THEN r ELSE Caught(c, r)

-----------------------------------------------------------------------------
(* routeHandler(...args).  An argument is described by what the test of     *)
(* routeHandler reads of it: what kind of value it is and its parameter     *)
(* list, each parameter plain, with a default value, or a rest parameter.   *)
(* `wrapped` tells body(item) from item.                                    *)

MaxArgs == 2

Item(id, kind, params) == [id |-> id, kind |-> kind, params |-> params, wrapped |-> FALSE]

\* typeof arg === 'function'
IsFunction(item) == item.kind \in {"async", "sync", "asyncGenerator"}

\* arg.constructor.name
ConstructorName(item) ==
  CASE item.kind = "async" -> "AsyncFunction"
    [] item.kind = "asyncGenerator" -> "AsyncGeneratorFunction"
    [] item.kind = "sync" -> "Function"
    [] OTHER -> "Object"

\* arg.length: the parameters before the first one that has a default value
\* or is a rest parameter.
RECURSIVE FnLength(_)
FnLength(params) ==
  IF params = <<>> \/ Head(params) # "plain" THEN 0 ELSE 1 + FnLength(Tail(params))

\* body(item): a new function around item.
Wrapped(item) == [item EXCEPT !.wrapped = TRUE]

\* routeHandler(...args)
routeHandler(args) ==
  [i \in DOMAIN args |->
     IF IsFunction(args[i]) /\ ConstructorName(args[i]) = "AsyncFunction"
        /\ FnLength(args[i].params) = 1
     THEN Wrapped(args[i])
     ELSE args[i]]

RouteItems ==
  { Item("handler", "async", <<"plain">>),
    Item("middleware", "async", <<"plain", "plain">>),
    Item("noArgs", "async", <<>>),
    Item("optionalNext", "async", <<"plain", "default">>),
    Item("optionalCtx", "async", <<"default">>),
    Item("syncHandler", "sync", <<"plain">>),
    Item("generator", "asyncGenerator", <<"plain">>),
    Item("value", "value", <<>>) }

ArgLists == UNION {[1..n -> RouteItems] : n \in 0..MaxArgs}

-----------------------------------------------------------------------------
(* The inputs of the calls.                                                 *)

Messages == {ScStr("m")}

User == Obj([id |-> ScNum("100"), username |-> ScStr("test_user")])
UserWithPassword ==
  Obj([id |-> ScNum("100"), username |-> ScStr("test_user"),
       password |-> ScStr("SHOULD_BE_MASKED")])
BadUser == Obj([id |-> ScStr("not-number"), username |-> ScStr("test_user")])

Results == {Undef, Null, UserWithPassword, BadUser}
RequestValues == {UserWithPassword, BadUser}

StatusArgs == {StatusUndef, StatusNull, StatusNum(201)}

\* The entries a validation error list may hold: Joker's {message, value}
\* records, records of another shape, and values that are not objects.
FullEntry == Obj([message |-> ScStr("x"), value |-> ScStr("y")])
MessageEntry == Obj([message |-> ScStr("x")])
StringEntry == Str("plain")

ErrorLists ==
  { Arr(<<>>), Arr(<<FullEntry>>), Arr(<<FullEntry, MessageEntry>>),
    Arr(<<FullEntry, StringEntry>>), Arr(<<Null>>) }

\* What a validate may answer when it does not accept.
Rejections ==
  {False, Undef, Num("1"), Str("no"), Obj([reason |-> ScStr("no")])} \cup ErrorLists

ThrownValues ==
  { PlainError("boom"),
    [PlainError("through at") EXCEPT !.stack = StackThroughAt("through at")],
    [PlainError("no frames") EXCEPT !.stack = StackWithoutFrames("no frames")],
    [PlainError("teapot") EXCEPT !.status = StatusNum(418)],
    ThrownObject("gone", StatusNum(410)),
    HttpError("not found", StatusNum(404)),
    HttpError("no status", StatusUndef),
    HttpError("null status", StatusNull),
    [HttpError("cleared", StatusNum(404)) EXCEPT !.status = StatusUndef],
    SchemaError("null status", StatusNull, Arr(<<FullEntry>>)),
    ThrownNull }
    \cup {SchemaError("Manual Fail", StatusNum(ValidationStatus), e) : e \in ErrorLists}
    \cup {SchemaError("no result", StatusUndef, Undef)}

Handlers ==
  {Handler("success", msg, r, StatusUndef, NoError) : msg \in Messages, r \in Results}
    \cup {Handler("fail", msg, Undef, StatusNum(404), NoError) : msg \in Messages}
    \cup {Handler("value", ScUndef, UserWithPassword, StatusUndef, NoError)}
    \cup {Handler("throw", ScUndef, Undef, StatusUndef, e) : e \in ThrownValues}

-----------------------------------------------------------------------------
(* The state machine.                                                       *)

Args(message, result, st, dataType, b, value, h) ==
  [message |-> message, result |-> result, status |-> st, dataType |-> dataType,
   binding |-> b, value |-> value, handler |-> h, items |-> <<>>]
NoArgs == Args(ScUndef, Undef, StatusUndef, "", NoBinding, Undef, NoHandler)

Call(op, args, r) ==
  [op |-> op, args |-> args, out |-> r.out,
   trace |-> r.m.trace, statuses |-> r.m.statuses, finals |-> r.m.finals,
   stored |-> r.m.stored, vcalls |-> r.m.vcalls, mcalls |-> r.m.mcalls,
   route |-> <<>>, req |-> NoRequest, before |-> store]

Do(op, args, r) ==
  /\ calls < MaxCalls
  /\ calls' = calls + 1
  /\ store' = r.m.store
  /\ httpStatus' = r.m.http
  /\ call' = Call(op, args, r)
  /\ UNCHANGED <<ctx, reqs>>

Now == Mem(store, httpStatus)

\* What binding b may answer for a subject it does not accept; a binding that
\* accepts the subject (or no binding at all) gives no such answer.
AnswersOf(b, subj) == IF b = NoBinding \/ Accepts(b, subj) THEN {False} ELSE Rejections

\* A request that has made no call yet: what its context holds, how its
\* last call ended, which bindings were registered on its context and which
\* ones success() consulted in its last call, and the same request run alone.
FreshRequest ==
  [store |-> NoBinding, http |-> StatusNum(DefaultSuccessStatus), steps |-> 0,
   out |-> Returned(RetUndef), registered |-> {}, consulted |-> {},
   alone |-> [store |-> NoBinding, http |-> StatusNum(DefaultSuccessStatus),
              out |-> Returned(RetUndef)]]

Init ==
  /\ reqs = [i \in {1, 2} |-> FreshRequest]
  /\ ctx \in Contexts
  /\ store = NoBinding
  /\ httpStatus = StatusNum(DefaultSuccessStatus)
  /\ calls = 0
  /\ call = Call("none", NoArgs, [m |-> Mem(NoBinding, StatusUndef), out |-> Returned(RetUndef)])

Success ==
  /\ HasStore(ctx)
  /\ \E message \in Messages, result \in Results, st \in StatusArgs :
       \E rej \in AnswersOf(store, EnvSubject(Envelope(TRUE, StatusUndef, message, Default(result, Arr(<<>>))))) :
       Do("success", [NoArgs EXCEPT !.message = message, !.result = result, !.status = st],
          success(ctx, Now, message, result, st, rej))

Fail ==
  /\ HasStore(ctx)
  /\ \E message \in Messages, result \in {Undef, Null, FullEntry}, st \in StatusArgs :
       Do("fail", [NoArgs EXCEPT !.message = message, !.result = result, !.status = st],
          fail(ctx, Now, message, st, result))

Verify ==
  /\ HasStore(ctx)
  /\ \E b \in ResponseBindings :
       Do("verify", [NoArgs EXCEPT !.binding = b], verify(ctx, Now, b))

\* validate() is given a request target and a request schema, or the target
\* 'result' and a response schema as the handler tests do.  The binding
\* answers only when the middleware gets as far as calling it.
ValidateInputs ==
  {<<dataType, b, value>> : dataType \in DataTypes, b \in RequestBindings,
                            value \in RequestValues}
    \cup {<<"result", b, UserWithPassword>> : b \in {UserSchema, AsyncAny}}

Validate ==
  \E in \in ValidateInputs :
    \E rej \in (IF HasRequest(ctx)
                THEN AnswersOf(in[2], ValSubject(honoValue(in[1], in[3])))
                ELSE {False}) :
      Do("validate", [NoArgs EXCEPT !.dataType = in[1], !.binding = in[2], !.value = in[3]],
         validate(ctx, Now, in[1], in[2], in[3], rej))

Body ==
  /\ HasStore(ctx)
  /\ \E h \in Handlers :
       \E rej \in (IF h.k = "success"
                   THEN AnswersOf(store, EnvSubject(Envelope(TRUE, StatusUndef, h.message,
                                                             Default(h.result, Arr(<<>>)))))
                   ELSE {False}) :
       Do("body", [NoArgs EXCEPT !.handler = h], body(ctx, Now, h, rej))

\* A route is assembled when the module that defines it loads, before the
\* context handles a call.
RouteHandler ==
  /\ calls = 0 /\ calls < MaxCalls
  /\ \E items \in ArgLists :
       /\ calls' = calls + 1
       /\ call' = [Call("routeHandler", [NoArgs EXCEPT !.items = items],
                         [m |-> Now, out |-> Returned(RetUndef)])
                    EXCEPT !.route = routeHandler(items)]
       /\ UNCHANGED <<ctx, store, httpStatus, reqs>>

\* The error-list conversion on its own, applied to what a validate may
\* answer; it touches no context.
GetErrors ==
  /\ calls = 0 /\ calls < MaxCalls
  /\ \E errors \in Rejections :
       LET e == getErrors(errors)
       IN  /\ calls' = calls + 1
           /\ call' = Call("getErrors", [NoArgs EXCEPT !.result = errors],
                           [m |-> Now,
                            out |-> IF e.ok THEN Returned(RetValue(e.v))
                                            ELSE Threw(InOperatorError)])
           /\ UNCHANGED <<ctx, store, httpStatus, reqs>>

\* A test calls schemaTest; each call builds a context of its own.
SchemaTest ==
  /\ ctx = SyntheticCtx
  /\ \E dataType \in DataTypes, b \in RequestBindings, data \in RequestValues,
        bd \in Boundaries :
       \E rej \in AnswersOf(b, ValSubject(SyntheticRead(Request(dataType, data, bd),
                                                        dataType, data).v)) :
         LET r == schemaTest(dataType, b, data, bd, rej)
         IN  /\ calls < MaxCalls
             /\ calls' = calls + 1
             /\ store' = r.m.store
             /\ httpStatus' = r.m.http
             /\ call' = [Call("schemaTest",
                               [NoArgs EXCEPT !.dataType = dataType, !.binding = b,
                                              !.value = data], r)
                          EXCEPT !.req = Request(dataType, data, bd)]
             /\ UNCHANGED <<ctx, reqs>>

Next ==
  Success \/ Fail \/ Verify \/ Validate \/ Body \/ RouteHandler \/ SchemaTest \/ GetErrors

Spec == Init /\ [][Next]_vars

-----------------------------------------------------------------------------
(* Two requests in flight.  Each runs on a Hono context of its own; their  *)
(* calls interleave in any order, at most MaxIsoCalls calls per request.    *)

MaxIsoCalls == 2

Requests == {1, 2}
IsoCtx == [kind |-> "hono", env |-> "unset"]

\* (variant: every request reaches the storage of the first context)
ContextOfFirst(i) == 1
\* The context whose storage the ctx.get / ctx.set of request i's calls
\* reach: the ctx argument the call was given, which is request i's own.
ContextOf(i) == i

\* The memory a call of request i works on: its context's, or that of the
\* context that serves this request alone.
MemOf(i, alone) ==
  IF alone THEN Mem(reqs[i].alone.store, reqs[i].alone.http)
           ELSE Mem(reqs[ContextOf(i)].store, reqs[i].http)

\* One call of request i, which ends as r on its context and as ra on a
\* context that serves this request alone.
IsoDo(i, r, ra) ==
  /\ reqs[i].steps < MaxIsoCalls
  /\ reqs' = [reqs EXCEPT
                ![ContextOf(i)].store = r.m.store,
                ![i].http = r.m.http,
                ![i].steps = @ + 1,
                ![i].out = r.out,
                ![i].registered =
                   @ \cup (IF "set" \in {r.m.trace[k] : k \in DOMAIN r.m.trace}
                           THEN {r.m.store.id} ELSE {}),
                ![i].consulted =
                   {r.m.vcalls[k].b : k \in {n \in DOMAIN r.m.vcalls :
                                               r.m.vcalls[n].subj.k = "envelope"}},
                ![i].alone = [store |-> ra.m.store, http |-> ra.m.http, out |-> ra.out]]
  /\ UNCHANGED <<ctx, store, httpStatus, calls, call>>

IsoInit ==
  /\ reqs = [i \in Requests |-> FreshRequest]
  /\ ctx = IsoCtx
  /\ store = NoBinding
  /\ httpStatus = StatusNum(DefaultSuccessStatus)
  /\ calls = 0
  /\ call = Call("none", NoArgs, [m |-> Mem(NoBinding, StatusUndef), out |-> Returned(RetUndef)])

IsoVerify ==
  \E i \in Requests, b \in {UserSchema, EnvelopeNoMask} :
    IsoDo(i, verify(IsoCtx, MemOf(i, FALSE), b), verify(IsoCtx, MemOf(i, TRUE), b))

IsoValidate ==
  \E i \in Requests, value \in RequestValues :
    IsoDo(i, validate(IsoCtx, MemOf(i, FALSE), "json", MaskSchema, value, False),
             validate(IsoCtx, MemOf(i, TRUE), "json", MaskSchema, value, False))

IsoSuccess ==
  \E i \in Requests, result \in RequestValues :
    IsoDo(i, success(IsoCtx, MemOf(i, FALSE), ScStr("m"), result, StatusUndef, False),
             success(IsoCtx, MemOf(i, TRUE), ScStr("m"), result, StatusUndef, False))

IsoFail ==
  \E i \in Requests :
    IsoDo(i, fail(IsoCtx, MemOf(i, FALSE), ScStr("m"), StatusUndef, Undef),
             fail(IsoCtx, MemOf(i, TRUE), ScStr("m"), StatusUndef, Undef))

IsoBody ==
  \E i \in Requests :
    \E h \in {Handler("success", ScStr("m"), r, StatusUndef, NoError) : r \in RequestValues}
               \cup {Handler("throw", ScUndef, Undef, StatusUndef, e) :
                       e \in {PlainError("boom"), HttpError("not found", StatusNum(404))}} :
      IsoDo(i, body(IsoCtx, MemOf(i, FALSE), h, False), body(IsoCtx, MemOf(i, TRUE), h, False))

IsoNext == IsoVerify \/ IsoValidate \/ IsoSuccess \/ IsoFail \/ IsoBody

IsoSpec == IsoInit /\ [][IsoNext]_vars

-----------------------------------------------------------------------------
(* Properties.  Each is a predicate on the record of the last call.         *)

\* What the awaited answer of the first validate call of the last call was.
Answered == call.vcalls # <<>>
Answer == Await(call.vcalls[1].ret)
RawAnswer == call.vcalls[1].ret

\* The readable form of a validation answer: in a list, each record that has
\* a message and a value becomes "<message> (got '<value>')".
ReadableEntry(e) ==
  IF e.t = "obj" /\ {"message", "value"} \subseteq DOMAIN e.f
  THEN Str(e.f["message"].s \o " (got '" \o e.f["value"].s \o "')")
  ELSE e
Readable(v) ==
  IF v.t = "arr" THEN Arr([i \in DOMAIN v.items |-> ReadableEntry(v.items[i])]) ELSE v

\* The envelope a return value carries on a context whose json() returns one.
CarriesEnvelope(ret) == ret.k \in {"response", "payload"}

\* The handler of the last body() call threw: by itself, or in its success().
HandlerThrew ==
  \/ call.args.handler.k = "throw"
  \/ call.args.handler.k = "success" /\ Answered /\ RawAnswer # True

(* C1: whatever the wrapped handler throws, the function body() returns     *)
(* returns a failure envelope built by fail(); nothing propagates.          *)
C1_BodyNeverThrows ==
  (call.op = "body" /\ HandlerThrew) =>
    /\ call.out.k = "return"
    /\ "fail" \in {call.trace[i] : i \in DOMAIN call.trace}
    /\ CarriesEnvelope(call.out.ret) /\ ~call.out.ret.env.success

\* The value the middleware of the last validate() call read for its target.
ValueRead == honoValue(call.args.dataType, call.args.value)

(* C2: when validate answers true, the middleware stores mask(value), or    *)
(* the value itself when the binding has no mask, under dataType, emits no  *)
(* failure envelope, and the continuation runs.                             *)
C2_ValidStoredAndContinues ==
  (call.op = "validate" /\ Answered /\ Answer = True) =>
    /\ call.out.k = "return"
    /\ Len(call.stored) = 1
    /\ call.stored[1].target = call.args.dataType
    /\ call.args.binding.m = "none" => call.stored[1].data = ValueRead
    /\ call.args.binding.m = "schema" =>
         /\ DOMAIN call.stored[1].data.f = (DOMAIN ValueRead.f) \cap SchemaFields
         /\ \A k \in DOMAIN call.stored[1].data.f :
              call.stored[1].data.f[k] = ValueRead.f[k]
    /\ call.finals = <<>> /\ call.statuses = <<>>
    /\ call.trace[Len(call.trace)] = "next"

C2_Witness ==
  /\ call.op = "validate" /\ Answered /\ Answer = True
  /\ call.args.binding = MaskSchema
  /\ call.args.value = UserWithPassword
  /\ call.stored = <<[target |-> "form", data |-> User]>>

(* C3: when validate does not answer true, the middleware sets status 422   *)
(* and finalizes {success:false, status:422, message:"request <dataType>    *)
(* data failed schema validation", data:<the converted error list>}.        *)
C3_Invalid422Envelope ==
  (call.op = "validate" /\ Answered /\ Answer # True) =>
    /\ call.statuses = <<StatusNum(ValidationStatus)>>
    /\ Len(call.finals) = 1
    /\ call.finals[1].env.success = FALSE
    /\ call.finals[1].env.status = StatusNum(ValidationStatus)
    /\ call.finals[1].env.message =
         ScStr("request " \o call.args.dataType \o " data failed schema validation")
    /\ call.finals[1].env.data = Readable(Answer)

(* C4: when request validation fails, the continuation is never invoked and *)
(* no validated data is stored, on every context the middleware runs on.    *)
C4_InvalidStopsChain ==
  (call.op = "validate" /\ Answered /\ Answer # True) =>
    /\ call.stored = <<>>
    /\ "next" \notin {call.trace[i] : i \in DOMAIN call.trace}

(* C5: with a verifier registered whose validate does not return true,      *)
(* success() throws a SchemaError with status 500, message 'response data   *)
(* failed schema validation' and result equal to the verifier's return      *)
(* value; neither the status setter nor the JSON finalizer is invoked.      *)
C5_RejectedSuccessThrows ==
  (call.op = "success" /\ store # NoBinding /\ Answered /\ RawAnswer # True) =>
    /\ call.out.k = "throw"
    /\ call.out.err.k = "SchemaError"
    /\ call.out.err.status = StatusNum(500)
    /\ call.out.err.message = ScStr("response data failed schema validation")
    /\ call.out.err.result = RawAnswer
    /\ call.statuses = <<>> /\ call.finals = <<>>

C5_Witness ==
  /\ call.op = "success" /\ store = UserSchema
  /\ call.args.result = BadUser
  /\ call.out.k = "throw"
  /\ call.out.err.result = Arr(<<FullEntry, MessageEntry>>)

(* C6: with a verifier registered, the value success() passes to validate   *)
(* and to mask is the caller's result payload (the envelope's data), not    *)
(* the envelope with its success/status/message fields.                     *)
C6_VerifierSeesPayload ==
  call.op = "success" =>
    /\ \A i \in DOMAIN call.vcalls :
         call.vcalls[i].subj = ValSubject(Default(call.args.result, Arr(<<>>)))
    /\ \A i \in DOMAIN call.mcalls :
         call.mcalls[i].subj = ValSubject(Default(call.args.result, Arr(<<>>)))

\* The envelope success() builds from its arguments.
BuiltEnvelope ==
  Envelope(TRUE,
           IF call.args.status.t = "num" THEN call.args.status ELSE StatusNum(200),
           call.args.message,
           IF call.args.result.t \in {"undef", "null"} THEN Arr(<<>>) ELSE call.args.result)

C8_NoVerifierPayloadUnaltered ==
  (call.op = "success" /\ store = NoBinding) =>
    /\ call.out.k = "return"
    /\ call.vcalls = <<>> /\ call.mcalls = <<>>
    /\ Len(call.finals) = 1
    /\ call.finals[1].env.success = TRUE
    /\ call.finals[1].env.message = call.args.message
    /\ call.finals[1].env.status =
         (IF call.args.status.t = "num" THEN call.args.status ELSE StatusNum(200))
    /\ call.args.result.t # "undef" => call.finals[1].env.data = call.args.result

(* C9: fail() never consults the response verifier: on every context, also  *)
(* one with a verifier registered, it finalizes {success:false, status,     *)
(* message, data:result} with the result unchanged and calls neither        *)
(* validate nor mask.                                                       *)
C9_FailIgnoresVerifier ==
  call.op = "fail" =>
    /\ call.vcalls = <<>> /\ call.mcalls = <<>>
    /\ call.out.k = "return"
    /\ Len(call.finals) = 1
    /\ call.finals[1].env =
         Envelope(FALSE,
                  IF call.args.status.t = "num" THEN call.args.status ELSE StatusNum(400),
                  call.args.message, call.args.result)

C9_Witness ==
  /\ call.op = "fail" /\ store = UserSchema
  /\ call.args.result = FullEntry
  /\ Len(call.finals) = 1
  /\ call.finals[1].env.data = FullEntry

(* C10: with a verifier registered and a body()-wrapped handler returning   *)
(* success() with a payload the verifier rejects, the wrapper returns a     *)
(* failure envelope with success=false, status 500 and data the converted   *)
(* validation error list, and no success=true envelope is finalized.        *)
C10_RejectedSuccessThroughBody ==
  (call.op = "body" /\ call.args.handler.k = "success" /\ Answered /\ RawAnswer # True) =>
    /\ call.out.k = "return"
    /\ CarriesEnvelope(call.out.ret)
    /\ call.out.ret.env.success = FALSE
    /\ call.out.ret.env.status = StatusNum(500)
    /\ call.out.ret.env.data = Readable(RawAnswer)
    /\ \A i \in DOMAIN call.finals : ~call.finals[i].env.success

\* The value the handler of the last body() call threw by itself.
ThrownByHandler == call.args.handler.err
HandlerThrewItself == call.op = "body" /\ call.args.handler.k = "throw"

\* The last body() call, made again on the same context with another env.
BodyUnderEnv(e) ==
  body([ctx EXCEPT !.env = e], Mem(store, httpStatus), call.args.handler, False)

(* C11: when the wrapped handler throws a SchemaError, the failure           *)
(* envelope's data is the converted form of err.result, the same whatever    *)
(* CF_REQUESTS_STACKTRACE is; no stack trace is attached, also when the      *)
(* result is absent.                                                         *)
C11_SchemaErrorDataIgnoresFlag ==
  (HandlerThrewItself /\ IsSchemaError(ThrownByHandler)) =>
    /\ call.out.k = "return"
    /\ CarriesEnvelope(call.out.ret)
    /\ call.out.ret.env.success = FALSE
    /\ call.out.ret.env.data = Readable(ThrownByHandler.result)
    /\ \A e \in EnvFlags \cup {NoEnv} : BodyUnderEnv(e).out = call.out

(* C12: when the wrapped handler throws a plain Error with message m on a    *)
(* context whose CF_REQUESTS_STACKTRACE is anything but the string 'true' or *)
(* 'yes' (unset, 'false', 'TRUE', boolean true), the result is               *)
(* {success:false, status:500, message:m, data:undefined} and the HTTP       *)
(* status set on ctx is 500: no stack information appears.                   *)
C12_NoTraceUnlessEnabled ==
  (HandlerThrewItself /\ ThrownByHandler.k = "Error" /\ ctx.env \in EnvFlags \ {"true", "yes"}) =>
    /\ call.out.k = "return"
    /\ CarriesEnvelope(call.out.ret)
    /\ call.out.ret.env = Envelope(FALSE, StatusNum(500), ThrownByHandler.message, Undef)
    /\ call.finals = <<[env |-> call.out.ret.env, http |-> StatusNum(500)]>>
    /\ call.statuses = <<StatusNum(500)>>
    /\ httpStatus = StatusNum(500)

C12_Witness ==
  /\ HandlerThrewItself /\ ThrownByHandler = PlainError("boom")
  /\ ctx.env = "TRUE"
  /\ call.out.k = "return"
  /\ call.out.ret.env = Envelope(FALSE, StatusNum(500), ScStr("boom"), Undef)

\* A string that starts with "at ".
StartsWithAt(str) == \E t \in FrameTexts : str = "at " \o t

ThrewErrorWhileTracing ==
  /\ HandlerThrewItself
  /\ ThrownByHandler.k \in {"Error", "HttpError"}
  /\ ctx.env \in {"true", "yes"}

(* C13: when the wrapped handler throws an error that is no SchemaError and  *)
(* CF_REQUESTS_STACKTRACE is 'true' or 'yes', the envelope's data is a       *)
(* non-empty sequence of strings, one per stack frame in stack order, the    *)
(* summary line removed and no entry starting with 'at '.                    *)
C13_TraceNonEmptyWithoutAt ==
  ThrewErrorWhileTracing =>
    /\ call.out.k = "return"
    /\ CarriesEnvelope(call.out.ret)
    /\ call.out.ret.env.data.t = "arr"
    /\ Len(call.out.ret.env.data.items) >= 1
    /\ Len(call.out.ret.env.data.items) = Len(ThrownByHandler.stack) - 1
    /\ \A i \in DOMAIN call.out.ret.env.data.items :
         /\ call.out.ret.env.data.items[i].t = "str"
         /\ ~StartsWithAt(call.out.ret.env.data.items[i].s)

(* C13 amended: under the same conditions the envelope's data is the         *)
(* sequence of the lines of err.stack after the first, in order, each        *)
(* without its surrounding blanks and without one leading 'at '; it is empty *)
(* when the stack holds the summary line only, and an entry still starts     *)
(* with 'at ' when the frame's own text does.                                *)
C13_TraceIsStackAfterFirstLine ==
  ThrewErrorWhileTracing =>
    /\ call.out.k = "return"
    /\ CarriesEnvelope(call.out.ret)
    /\ call.out.ret.env.data.t = "arr"
    /\ Len(call.out.ret.env.data.items) = Len(ThrownByHandler.stack) - 1
    /\ \A i \in DOMAIN call.out.ret.env.data.items :
         call.out.ret.env.data.items[i] = Str(ThrownByHandler.stack[i + 1].text)

C13_Witness ==
  /\ ThrewErrorWhileTracing
  /\ ctx.env = "yes"
  /\ ThrownByHandler.stack = StackThroughAt("through at")
  /\ call.out.k = "return"
  /\ call.out.ret.env.data =
       Arr(<<Str("at (route.js:1:1)"), Str("async body (handlers.js:188:14)")>>)

(* C14: when the wrapped handler throws an HttpError or a SchemaError, the   *)
(* failure envelope's status and the HTTP status set on ctx both equal       *)
(* err.status, and both are 500 when the error's status is unset (omitted,   *)
(* undefined or null at construction, or cleared afterwards).                *)
C14_HttpErrorStatusOr500 ==
  (HandlerThrewItself /\ IsHttpError(ThrownByHandler) /\ call.out.k = "return") =>
    LET expected == IF ThrownByHandler.status.t = "num"
                    THEN ThrownByHandler.status ELSE StatusNum(500)
    IN  /\ CarriesEnvelope(call.out.ret)
        /\ call.out.ret.env.status = expected
        /\ call.statuses = <<expected>>
        /\ httpStatus = expected

(* C15: every exception caught by body() that is no instance of HttpError    *)
(* produces a failure envelope with status 500, whatever properties the      *)
(* thrown value carries, a status of its own included.                       *)
C15_OtherExceptionsGive500 ==
  (HandlerThrewItself /\ ~IsHttpError(ThrownByHandler)) =>
    /\ call.out.k = "return"
    /\ CarriesEnvelope(call.out.ret)
    /\ call.out.ret.env.success = FALSE
    /\ call.out.ret.env.status = StatusNum(500)
    /\ call.statuses = <<StatusNum(500)>>

(* C16: when the wrapped handler completes without throwing, the function    *)
(* body() returns returns exactly the handler's result and itself calls      *)
(* neither the status setter nor the JSON finalizer of ctx.                  *)
C16_ReturnPassesThrough ==
  (call.op = "body" /\ ~HandlerThrew) =>
    /\ call.out.k = "return"
    /\ call.args.handler.k = "value" =>
         /\ call.out.ret = RetValue(call.args.handler.result)
         /\ call.statuses = <<>> /\ call.finals = <<>>
    /\ call.args.handler.k \in {"success", "fail"} =>
         /\ Len(call.statuses) = 1 /\ Len(call.finals) = 1
         /\ call.out.ret =
              JsonReturn(ctx, Mem(store, call.statuses[1]), call.finals[1].env)

C16_Witness ==
  /\ call.op = "body" /\ call.args.handler.k = "value"
  /\ call.out = Returned(RetValue(UserWithPassword))
  /\ call.trace = <<"handler">>

(* C17: success(ctx, m) with result and status omitted sets HTTP status 200  *)
(* and finalizes {success:true, status:200, message:m, data:[]}; with a      *)
(* provided result r and status s it finalizes {success:true, status:s,     *)
(* message:m, data:r} and sets HTTP status s.                                *)
C17_SuccessDefaultsAndArguments ==
  (call.op = "success" /\ store = NoBinding) =>
    LET s == IF call.args.status.t = "num" THEN call.args.status
             ELSE StatusNum(200)
        r == IF call.args.result.t = "undef" THEN Arr(<<>>) ELSE call.args.result
    IN  /\ call.out.k = "return"
        /\ call.statuses = <<s>>
        /\ httpStatus = s
        /\ call.finals = <<[env |-> Envelope(TRUE, s, call.args.message, r), http |-> s]>>

(* C18: fail(ctx, m) with status and result omitted sets HTTP status 400 and *)
(* finalizes {success:false, status:400, message:m} with data undefined;     *)
(* with a provided status s and result r it finalizes {success:false,        *)
(* status:s, message:m, data:r} and sets HTTP status s.                      *)
C18_FailDefaultsAndArguments ==
  call.op = "fail" =>
    LET s == IF call.args.status.t = "num" THEN call.args.status
             ELSE StatusNum(400)
    IN  /\ call.out.k = "return"
        /\ call.statuses = <<s>>
        /\ httpStatus = s
        /\ call.finals =
             <<[env |-> Envelope(FALSE, s, call.args.message, call.args.result), http |-> s]>>

C18_Witness ==
  /\ call.op = "fail"
  /\ call.args.status = StatusUndef /\ call.args.result = Undef
  /\ httpStatus = StatusNum(400)
  /\ call.finals = <<[env |-> Envelope(FALSE, StatusNum(400), ScStr("m"), Undef),
                      http |-> StatusNum(400)]>>

(* C19: only the value true returned by a binding's validate counts as       *)
(* valid, in the validate() middleware and in success() alike: any other     *)
(* answer (false, undefined, 1, a string, an object, an empty array, ...) is *)
(* treated as a validation failure and is used as the error payload.         *)
C19_OnlyTrueIsValid ==
  /\ (call.op = "validate" /\ Answered /\ Answer # True) =>
        /\ call.mcalls = <<>>
        /\ \A i \in DOMAIN call.stored : call.stored[i].data # call.args.value
        /\ Len(call.finals) = 1
        /\ call.finals[1].env.success = FALSE
        /\ call.finals[1].env.data = Readable(Answer)
  /\ (call.op = "success" /\ Answered /\ RawAnswer # True) =>
        /\ call.mcalls = <<>> /\ call.finals = <<>>
        /\ call.out.k = "throw"
        /\ call.out.err.k = "SchemaError"
        /\ call.out.err.result = RawAnswer

\* An async function, and the number of positional parameters it declares.
IsAsyncFunction(item) == item.kind = "async"
Positional(item) == Cardinality({i \in DOMAIN item.params : item.params[i] # "rest"})

(* C20: routeHandler(...args) returns a sequence of the length and order of  *)
(* args in which exactly the async functions declaring exactly one           *)
(* positional argument are replaced by body(item); every other item is the   *)
(* identical reference.                                                      *)
C20_WrapsOneArgumentAsync ==
  call.op = "routeHandler" =>
    /\ Len(call.route) = Len(call.args.items)
    /\ \A i \in DOMAIN call.args.items :
         call.route[i] =
           IF IsAsyncFunction(call.args.items[i]) /\ Positional(call.args.items[i]) = 1
           THEN Wrapped(call.args.items[i])
           ELSE call.args.items[i]


\* The bindings the validate and mask calls of the last call belonged to.
ConsultedBindings ==
  {call.vcalls[i].b : i \in DOMAIN call.vcalls} \cup {call.mcalls[i].b : i \in DOMAIN call.mcalls}

(* C21: a verify() run leaves the context holding the binding it was given *)
(* whatever the context held before (the last registration wins, and       *)
(* registering the binding already held changes nothing); no other call    *)
(* changes what the context holds; and a success() on the context consults *)
(* the binding held, once, and no other.                                   *)
C21_LastRegistrationWins ==
  /\ call.op = "verify" => store = call.args.binding
  /\ call.op # "verify" => store = call.before
  /\ (call.op = "success" \/ (call.op = "body" /\ call.args.handler.k = "success")) =>
       IF store = NoBinding
       THEN ConsultedBindings = {}
       ELSE Len(call.vcalls) = 1 /\ ConsultedBindings = {store.id}

C21_Witness ==
  /\ call.op = "verify" /\ calls = 2
  /\ call.before = UserSchema /\ call.args.binding = EnvelopeNoMask
  /\ store = EnvelopeNoMask

(* C22: running the middleware of validate('result', binding) on a context *)
(* registers the binding as the context's response verifier: afterwards    *)
(* ctx.get('__cf_requests_response_validator') is the binding.             *)
C22_ValidateResultRegisters ==
  (call.op = "validate" /\ call.args.dataType = "result") => CtxGet(Now) = call.args.binding


\* The validate and mask calls, the status sets, the finalized envelopes and
\* the continuations of the last call.
Count(tr, what) == Cardinality({i \in DOMAIN tr : tr[i] = what})

(* C23: schemaTest runs the middleware once, with a continuation that does *)
(* nothing, and returns the failure Response (status 422) whenever one was *)
(* captured, whatever valid data was captured besides; otherwise it        *)
(* returns the captured value: the value read, masked when a mask exists.  *)
C23_SchemaTestReturnsCapture ==
  call.op = "schemaTest" =>
    /\ Count(call.trace, "validate") = 1
    /\ call.finals # <<>> =>
         /\ call.out = Returned(RetResponse(call.finals[1].env, StatusNum(ValidationStatus)))
         /\ Len(call.finals) = 1
    /\ call.finals = <<>> =>
         /\ call.out.k = "return" /\ call.out.ret.k = "value"
         /\ Len(call.stored) = 1
         /\ call.out.ret.val =
              (IF HasMask(call.args.binding)
               THEN MaskFn(call.args.binding, call.vcalls[1].subj).val
               ELSE call.vcalls[1].subj.val)


(* C24: every envelope finalized by success() or fail() carries a status   *)
(* field equal to the HTTP status set on the context when it is finalized, *)
(* whatever verifier is registered and whatever its mask does.             *)
C24_EnvelopeStatusMirrorsHttp ==
  \A i \in DOMAIN call.finals : call.finals[i].env.status = call.finals[i].http


(* C25: the error-list conversion turns each entry that has a message and  *)
(* a value into "<message> (got '<value>')", returns every other entry, of *)
(* any type, unchanged, keeps length and order, and returns an input that  *)
(* is not an array untouched.                                              *)
C25_GetErrorsConversion ==
  call.op = "getErrors" => call.out = Returned(RetValue(Readable(call.args.result)))


(* C26: a body() call runs its handler once; when the handler throws, the  *)
(* wrapper calls fail() exactly once (one status set, one envelope         *)
(* finalized); when the handler does not throw, the wrapper calls fail()   *)
(* zero times (the only fail() is one the handler itself returns).         *)
C26_FailureReportedOnce ==
  call.op = "body" =>
    /\ Count(call.trace, "handler") = 1
    /\ HandlerThrew =>
         /\ Count(call.trace, "fail") = 1
         /\ Len(call.statuses) = 1 /\ Len(call.finals) = 1
    /\ ~HandlerThrew =>
         Count(call.trace, "fail") = (IF call.args.handler.k = "fail" THEN 1 ELSE 0)


C28_FormContentTypeRoundTrip ==
  (call.op = "schemaTest" /\ call.args.dataType = "form") =>
    /\ \A name \in HeaderNames :
         ToLowerCase(name) = "content-type" =>
           /\ header(call.req, "form", name) = call.req.contentType
           /\ header(call.req, "form", name).type = "multipart/form-data"
           /\ header(call.req, "form", name).boundary = call.req.boundary
    /\ call.out # Threw(TypeError("Malformed FormData request."))
    /\ Answered
    /\ call.vcalls[1].subj.k = "value"
    /\ DOMAIN call.vcalls[1].subj.val.f = DOMAIN call.args.value.f
    /\ \A k \in DOMAIN call.args.value.f :
         call.vcalls[1].subj.val.f[k] = ScStr(ToStr(call.args.value.f[k]))

C28_Witness ==
  /\ call.op = "schemaTest" /\ call.args.dataType = "form"
  /\ call.args.value = UserWithPassword
  /\ call.req.boundary = "----formdata-2"
  /\ header(call.req, "form", "CONTENT-TYPE") =
       ContentType("multipart/form-data", "----formdata-2")
  /\ Answered
  /\ call.vcalls[1].subj.val =
       Obj([id |-> ScStr("100"), username |-> ScStr("test_user"),
            password |-> ScStr("SHOULD_BE_MASKED")])


\* Where the one occurrence of a step is in the trace of the last call.
Pos(what) == CHOOSE i \in DOMAIN call.trace : call.trace[i] = what

(* C29: in every call in which success() or fail() emits an envelope the   *)
(* status setter is called exactly once and before the JSON finalizer,     *)
(* which is called exactly once; in a success() with a verifier validate   *)
(* runs before mask and both run before the status setter.                 *)
C29_StatusBeforeJson ==
  call.finals # <<>> =>
    /\ Count(call.trace, "status") = 1 /\ Count(call.trace, "json") = 1
    /\ Len(call.statuses) = 1 /\ Len(call.finals) = 1
    /\ Pos("status") < Pos("json")
    /\ (Count(call.trace, "success") = 1 /\ call.vcalls # <<>>) =>
         /\ Count(call.trace, "validate") = 1
         /\ Pos("validate") < Pos("status")
         /\ call.mcalls # <<>> =>
              /\ Count(call.trace, "mask") = 1
              /\ Pos("validate") < Pos("mask") /\ Pos("mask") < Pos("status")

C29_Witness ==
  /\ call.op = "success" /\ store = UserSchema
  /\ call.trace = <<"success", "validate", "mask", "status", "json">>


\* Whether the middleware validate(dataType, b) would accept the value v:
\* const result = await validate(value); result === true
MiddlewareAccepts(b, v) == Await(ValidateFn(b, ValSubject(v), False)) = True

(* C30: a binding is read by the same acceptance criterion on output as on *)
(* input: with binding b registered, success() rejects a result exactly    *)
(* when the middleware validate() built from b would reject that value,    *)
(* also when b's validate is asynchronous.                                 *)
C30_SameCriterionInAndOut ==
  (call.op = "success" /\ store # NoBinding /\ call.args.result.t = "obj") =>
    ((call.out.k = "throw") <=> ~MiddlewareAccepts(store, call.args.result))

=============================================================================
